---- MODULE Spec2Model ----
(***************************************************************************)
(* Model of src/pa3.c: the TLB, the page allocator, the page-fault handler *)
(* and the process switch of the virtual-memory simulator.                 *)
(*                                                                         *)
(* unsigned int values are written as their two's-complement residue, so   *)
(* (unsigned)-1 is written -1, 0 - 1 wraps to -1 and -1 + 1 wraps to 0; a  *)
(* value is "zero" exactly when it is 0, as for the C type.                *)
(*                                                                         *)
(* A call that dereferences a null pointer ends the program; it has no     *)
(* successor state, so its guard excludes it.                              *)
(***************************************************************************)
EXTENDS Integers, Sequences, FiniteSets, TLC

VARIABLES mapcounts, procs, current, ptbr, processes, tlb, call, ncalls

vars == <<mapcounts, procs, current, ptbr, processes, tlb, call, ncalls>>

\* ---------------------------------------------------------------- bounds
\* Fan-out of a directory and of the outer table (16 in the simulator).
NR_PTES_PER_PAGE == 2
\* Number of physical frames (128 in the simulator).
NR_PAGEFRAMES == 3
\* Largest vpn the driver passes.
MaxVpn == 1
\* Largest pid the driver passes.
MaxPid == 1
\* Number of process objects that may exist (the initial one and the forks).
MaxProcs == 2
\* Number of calls the driver makes in one run.
MaxCalls == 4
\* Number of calls of a run in which the driver also fills the TLB.
MaxTlbCalls == 4
\* Number of calls of the long runs.
MaxDeepCalls == 7

\* ------------------------------------------------------------- constants
\* The access modes of vm.h, as alloc_page and handle_page_fault compare them.
RW_READ == 1
RW_WRITE == 2
\* (unsigned int)-1, the value alloc_page stores and returns on failure.
UINT_MAX == 0 - 1

Frames == 0 .. (NR_PAGEFRAMES - 1)
Idx == 0 .. (NR_PTES_PER_PAGE - 1)
Vpns == 0 .. MaxVpn
Pids == 0 .. MaxPid
\* The access modes the driver passes.
RWModes == {RW_READ, RW_WRITE}
TlbIdx == 0 .. (NR_PTES_PER_PAGE * NR_PTES_PER_PAGE - 1)
\* The pfn values the driver passes to insert_tlb.
TlbPfns == 0 .. 1

\* ------------------------------------------------------------------ data
\* struct pte
ZeroPTE == [valid |-> FALSE, writable |-> FALSE, pfn |-> 0, private |-> 0]

\* An entry whose flag bytes are not zero although the program never wrote
\* them.
StalePTE == [valid |-> FALSE, writable |-> TRUE, pfn |-> 0, private |-> 1]

\* The values an entry of malloc'ed memory may hold before the program
\* writes it: malloc returns zero-filled memory from a fresh heap and the
\* old bytes of a recycled chunk. The valid byte is taken as zero in both.
Garbage == {ZeroPTE, StalePTE}

ZeroDir == [j \in Idx |-> ZeroPTE]

\* The contents malloc may hand out for a struct pte_directory: a chunk of
\* one kind throughout.
GarbageDirs == {[j \in Idx |-> g] : g \in Garbage}

\* A slot of outer_ptes[]: NULL, a directory, or a directory that was passed
\* to free() (the slot still points to it, and the chunk keeps what the
\* program wrote to it). A slot of a forked process that
\* was never written holds NULL or a wild pointer; dereferencing the wild
\* pointer ends the program where NULL lets it go on, so the runs with the
\* wild pointer are prefixes of the runs with NULL, which are the ones kept.
NullSlot == [state |-> "null", ptes |-> ZeroDir]

Deref(slot) == slot.state \in {"live", "freed"}

\* A process is its index in procs; a pointer to no process is NullProc.
NullProc == 0

\* The queue head taken as a process, container_of(&processes, struct
\* process, list): what list_for_each_entry leaves in its cursor when the
\* loop runs to its end.
HeadProc == 0 - 1

\* struct tlb_entry
ZeroTLB == [valid |-> FALSE, vpn |-> 0, pfn |-> 0]

\* The last call: the operation, its arguments and its return value, with
\* what the call found: the addressed entry (pte), the reference count of
\* that entry's frame (cnt) and the first free frame (first).
\* For switch_process, forked tells whether it took the fork branch and cnt
\* is the number of writable entries it found in the outgoing process. hits
\* is the number of valid TLB entries the call found (free_page: those of
\* vpn).
NoCall == [op |-> "none", vpn |-> 0, arg |-> 0, ret |-> 0, pte |-> ZeroPTE, cnt |-> 0, first |-> 0, forked |-> FALSE, hits |-> 0]

\* ------------------------------------------------------------- helpers
\* current and ptbr point to a process. Once they point into the queue head
\* (see switch_head) every later call walks pointers that are no page table
\* and no list node, and the run is taken to end there.
Running == current # HeadProc

\* One more call of the driver.
Tick == ncalls' = ncalls + 1

\* The driver has made fewer than n calls.
Budget(n) == ncalls < n

pd_index(vpn) == vpn \div NR_PTES_PER_PAGE
pte_index(vpn) == vpn % NR_PTES_PER_PAGE

Min(S) == CHOOSE x \in S : \A y \in S : x <= y

FreeFrames(mc) == {f \in Frames : mc[f] = 0}

Max(S) == CHOOSE x \in S : \A y \in S : x >= y

\* A scan from the last frame down.
FirstFree_Last(mc) == IF FreeFrames(mc) = {} THEN UINT_MAX ELSE Max(FreeFrames(mc))

\* for (i = 0; i < NR_PAGEFRAMES; i++) if (!mapcounts[i]) ... break;
FirstFree(mc) == IF FreeFrames(mc) = {} THEN UINT_MAX ELSE Min(FreeFrames(mc))

\* mapcounts[pfn]++ and mapcounts[pfn]--; an index outside the array touches
\* no frame's count.
IncCount(mc, pfn) == IF pfn \in Frames THEN [mc EXCEPT ![pfn] = @ + 1] ELSE mc
DecCount(mc, pfn) == IF pfn \in Frames THEN [mc EXCEPT ![pfn] = @ - 1] ELSE mc

CountOf(mc, pfn) == IF pfn \in Frames THEN mc[pfn] ELSE 0

SlotOf(p, vpn) == procs[p].pagetable[pd_index(vpn)]
PteOf(p, vpn) == SlotOf(p, vpn).ptes[pte_index(vpn)]

\* ------------------------------------------------------------------ TLB
\* lookup_tlb: the pfn of the first valid entry for vpn, or not found.
TlbHits(t, vpn) == {i \in TlbIdx : t[i].valid /\ t[i].vpn = vpn}
lookup_tlb(t, vpn) == IF TlbHits(t, vpn) = {} THEN [found |-> FALSE, pfn |-> 0] ELSE [found |-> TRUE, pfn |-> t[Min(TlbHits(t, vpn))].pfn]

TlbValid(t) == {i \in TlbIdx : t[i].valid}

TlbFree(t) == {i \in TlbIdx : ~t[i].valid}
TlbInsert(t, vpn, pfn) == IF TlbFree(t) = {} THEN t ELSE [t EXCEPT ![Min(TlbFree(t))] = [valid |-> TRUE, vpn |-> vpn, pfn |-> pfn]]

\* A loop that stops at the first entry it clears.
TlbInvalidate_First(t, vpn) == IF TlbHits(t, vpn) = {} THEN t ELSE [t EXCEPT ![Min(TlbHits(t, vpn))] = ZeroTLB]

\* The loop of free_page over the TLB: every valid entry for vpn is cleared.
TlbInvalidate(t, vpn) == [i \in TlbIdx |-> IF t[i].valid /\ t[i].vpn = vpn THEN ZeroTLB ELSE t[i]]

\* A flush that stops at the first entry it clears.
TlbFlush_First(t) == IF TlbValid(t) = {} THEN t ELSE [t EXCEPT ![Min(TlbValid(t))] = ZeroTLB]

\* The loop of switch_process over the TLB: every valid entry is cleared.
TlbFlush(t) == [i \in TlbIdx |-> IF t[i].valid THEN ZeroTLB ELSE t[i]]

insert_tlb(vpn, pfn) ==
    /\ Tick
    /\ Running
    /\ tlb' = TlbInsert(tlb, vpn, pfn)
    /\ call' = [NoCall EXCEPT !.op = "insert_tlb", !.vpn = vpn, !.arg = pfn]
    /\ UNCHANGED <<mapcounts, procs, current, ptbr, processes>>

\* ----------------------------------------------------------- alloc_page
AllocPte(old, rw, pfn) == [valid |-> TRUE, private |-> 0, writable |-> IF rw >= RW_WRITE THEN TRUE ELSE old.writable, pfn |-> pfn]

\* if (!pt) return -1: nothing is touched when no page table is bound.
AllocUnbound(vpn, rw) ==
    /\ call' = [NoCall EXCEPT !.op = "alloc_page", !.vpn = vpn, !.arg = rw, !.ret = UINT_MAX, !.first = FirstFree(mapcounts)]
    /\ UNCHANGED <<mapcounts, procs>>

\* The rest of alloc_page: the directory is malloc'ed when the slot is NULL,
\* the entry is written, then the first free frame is taken.
AllocBound(vpn, rw) ==
    LET slot == SlotOf(ptbr, vpn)
    IN  \E fresh \in (IF slot.state = "null" THEN GarbageDirs ELSE {slot.ptes}) :
             LET pd == IF slot.state = "null" THEN [state |-> "live", ptes |-> fresh] ELSE slot
                 old == pd.ptes[pte_index(vpn)]
                 pfn == FirstFree(mapcounts)
                 pte == AllocPte(old, rw, pfn)
             IN  /\ procs' = [procs EXCEPT ![ptbr].pagetable[pd_index(vpn)] = [pd EXCEPT !.ptes[pte_index(vpn)] = pte]]
                 /\ mapcounts' = IncCount(mapcounts, pfn)
                 /\ call' = [op |-> "alloc_page", vpn |-> vpn, arg |-> rw, ret |-> pfn, pte |-> old, cnt |-> CountOf(mapcounts, old.pfn), first |-> pfn, forked |-> FALSE, hits |-> 0]

alloc_page(vpn, rw) ==
    /\ Tick
    /\ Running
    /\ IF ptbr = NullProc THEN AllocUnbound(vpn, rw) ELSE AllocBound(vpn, rw)
    /\ UNCHANGED <<current, ptbr, processes, tlb>>

\* ------------------------------------------------------------ free_page
\* mapcounts[pte->pfn] > 0, read outside the array when pfn is no frame.
CountPositive(mc, pfn) == IF pfn \in Frames THEN {mc[pfn] # 0} ELSE BOOLEAN

AnyValid(ptes) == \E j \in Idx : ptes[j].valid

\* free(pd) leaves the slot pointing to the directory; a directory that is
\* freed again stays as it is.

free_page(vpn) ==
    LET slot == SlotOf(ptbr, vpn)
        pte == slot.ptes[pte_index(vpn)]
    IN  /\ Tick
        /\ Running
        /\ Deref(slot)
        /\ tlb' = TlbInvalidate(tlb, vpn)
        /\ \E positive \in CountPositive(mapcounts, pte.pfn) :
             LET cleared == IF positive THEN [slot.ptes EXCEPT ![pte_index(vpn)] = ZeroPTE] ELSE slot.ptes
             IN  /\ mapcounts' = IF positive THEN DecCount(mapcounts, pte.pfn) ELSE mapcounts
                 /\ procs' = [procs EXCEPT ![ptbr].pagetable[pd_index(vpn)] = [state |-> IF AnyValid(cleared) THEN slot.state ELSE "freed", ptes |-> cleared]]
        /\ call' = [op |-> "free_page", vpn |-> vpn, arg |-> 0, ret |-> 0, pte |-> pte, cnt |-> CountOf(mapcounts, pte.pfn), first |-> FirstFree(mapcounts), forked |-> FALSE, hits |-> Cardinality(TlbHits(tlb, vpn))]
        /\ UNCHANGED <<current, ptbr, processes>>

\* ---------------------------------------------------- handle_page_fault
\* A fault that takes the new frame and keeps the old reference.
FaultCounts_NoRelease(mc, pfn) == IncCount(mc, FirstFree(mc))

\* The counts after the private branch: the entry's frame is released, then
\* the first free frame, if any, is taken.
FaultCounts(mc, pfn) == IncCount(DecCount(mc, pfn), FirstFree(DecCount(mc, pfn)))

FaultPte(pte, mc) == IF FirstFree(DecCount(mc, pte.pfn)) = UINT_MAX THEN [pte EXCEPT !.writable = TRUE] ELSE [pte EXCEPT !.writable = TRUE, !.pfn = FirstFree(DecCount(mc, pte.pfn))]

handle_page_fault(vpn, rw) ==
    LET slot == SlotOf(ptbr, vpn)
        pte == slot.ptes[pte_index(vpn)]
    IN  /\ Tick
        /\ Running
        /\ rw = RW_WRITE => Deref(slot)
        /\ IF rw = RW_WRITE /\ pte.private = 1
           THEN /\ procs' = [procs EXCEPT ![ptbr].pagetable[pd_index(vpn)].ptes[pte_index(vpn)] = FaultPte(pte, mapcounts)]
                /\ mapcounts' = FaultCounts(mapcounts, pte.pfn)
                /\ call' = [op |-> "handle_page_fault", vpn |-> vpn, arg |-> rw, ret |-> IF FirstFree(DecCount(mapcounts, pte.pfn)) = UINT_MAX THEN 0 ELSE 1, pte |-> pte, cnt |-> CountOf(mapcounts, pte.pfn), first |-> FirstFree(mapcounts), forked |-> FALSE, hits |-> 0]
           ELSE /\ UNCHANGED <<procs, mapcounts>>
                /\ call' = [op |-> "handle_page_fault", vpn |-> vpn, arg |-> rw, ret |-> 0, pte |-> IF Deref(slot) THEN pte ELSE ZeroPTE, cnt |-> IF Deref(slot) THEN CountOf(mapcounts, pte.pfn) ELSE 0, first |-> FirstFree(mapcounts), forked |-> FALSE, hits |-> 0]
        /\ UNCHANGED <<current, ptbr, processes, tlb>>

\* ------------------------------------------------------- switch_process
\* A marking that takes every valid entry, writable or not.
CowPte_Every(pte) == IF pte.valid THEN [pte EXCEPT !.private = 1, !.writable = FALSE] ELSE pte

\* if (pte->writable) { pte->private = 1; pte->writable = false; } on a
\* valid entry of the outgoing process.
CowPte(pte) == IF pte.valid /\ pte.writable THEN [pte EXCEPT !.private = 1, !.writable = FALSE] ELSE pte

\* The number of entries of page table pt that the marking loop changes.
Marked(pt) == Cardinality({v \in Idx \X Idx : Deref(pt[v[1]]) /\ pt[v[1]].ptes[v[2]].valid /\ pt[v[1]].ptes[v[2]].writable})

CowSlot(slot) == IF Deref(slot) THEN [slot EXCEPT !.ptes = [j \in Idx |-> CowPte(slot.ptes[j])]] ELSE slot

\* The child's entry: pfn, private and valid are written for a valid entry of
\* the parent; writable is never written, and an entry that is not valid in
\* the parent is not written at all: both keep what malloc returned (g).
ChildPte(pte, g) == IF pte.valid THEN [valid |-> TRUE, pfn |-> pte.pfn, private |-> IF pte.writable THEN 1 ELSE pte.private, writable |-> g.writable] ELSE g

\* The child's slot: a new directory for a directory of the parent, and a
\* slot that is never written for a NULL slot of the parent.
ChildSlot(slot, fresh) == IF Deref(slot) THEN [state |-> "live", ptes |-> [j \in Idx |-> ChildPte(slot.ptes[j], fresh[j])]] ELSE NullSlot

\* The number of valid entries of page table pt bound to frame f.
Bound(pt, f) == Cardinality({v \in Idx \X Idx : Deref(pt[v[1]]) /\ pt[v[1]].ptes[v[2]].valid /\ pt[v[1]].ptes[v[2]].pfn = f})

\* mapcounts[pte->pfn]++ for every valid entry of the parent.
ForkCounts(mc, pt) == [f \in Frames |-> mc[f] + Bound(pt, f)]

\* list_for_each_entry(a, &processes, list) if (a->pid == pid) break;
\* the first queued process with the pid, or the queue head taken as a
\* process when the loop runs to its end.
Found(pid) == IF \E k \in 1 .. Len(processes) : procs[processes[k]].pid = pid THEN processes[Min({k \in 1 .. Len(processes) : procs[processes[k]].pid = pid})] ELSE HeadProc

Remove(q, a) == SelectSeq(q, LAMBDA x : x # a)

\* if (a->pid != pid) a = NULL; if (!a) { ... }: the fork. After a loop that
\* ran to its end, a->pid is a word of the data that precedes the queue head,
\* read through the head as if it were a process; this is the outcome in
\* which that word is not pid.
fork(pid) ==
    LET pt == procs[current].pagetable
    IN  /\ Tick
        /\ Running
        /\ Found(pid) = HeadProc
        /\ Len(procs) < MaxProcs
        /\ \E fresh \in [Idx -> GarbageDirs] :
             procs' = Append([procs EXCEPT ![current].pagetable = [i \in Idx |-> CowSlot(pt[i])]], [pid |-> pid, pagetable |-> [i \in Idx |-> ChildSlot(pt[i], fresh[i])]])
        /\ mapcounts' = ForkCounts(mapcounts, pt)
        /\ processes' = <<current>> \o processes
        /\ current' = Len(procs) + 1
        /\ ptbr' = Len(procs) + 1
        /\ tlb' = TlbFlush(tlb)
        /\ call' = [NoCall EXCEPT !.op = "switch_process", !.arg = pid, !.forked = TRUE, !.hits = Cardinality(TlbValid(tlb)), !.cnt = Marked(pt)]

\* The else branch with a process of the queue.
switch(pid) ==
    LET pt == procs[current].pagetable
        a == Found(pid)
    IN  /\ Tick
        /\ Running
        /\ a # HeadProc
        /\ procs' = [procs EXCEPT ![current].pagetable = [i \in Idx |-> CowSlot(pt[i])]]
        /\ processes' = Remove(<<current>> \o processes, a)
        /\ current' = a
        /\ ptbr' = a
        /\ tlb' = TlbFlush(tlb)
        /\ call' = [NoCall EXCEPT !.op = "switch_process", !.arg = pid, !.hits = Cardinality(TlbValid(tlb)), !.cnt = Marked(pt)]
        /\ UNCHANGED mapcounts

\* The else branch after a loop that ran to its end, in the outcome in which
\* the word read as a->pid is pid: a stays the queue head. list_add links
\* the outgoing process, list_del unlinks the head itself, which leaves the
\* processes linked to each other, and current and ptbr point into the head.
switch_head(pid) ==
    LET pt == procs[current].pagetable
    IN  /\ Tick
        /\ Running
        /\ Found(pid) = HeadProc
        /\ procs' = [procs EXCEPT ![current].pagetable = [i \in Idx |-> CowSlot(pt[i])]]
        /\ processes' = <<current>> \o processes
        /\ current' = HeadProc
        /\ ptbr' = HeadProc
        /\ tlb' = TlbFlush(tlb)
        /\ call' = [NoCall EXCEPT !.op = "switch_process", !.arg = pid, !.hits = Cardinality(TlbValid(tlb)), !.cnt = Marked(pt)]
        /\ UNCHANGED mapcounts

switch_process(pid) == fork(pid) \/ switch(pid) \/ switch_head(pid)

\* The simulator's start: the initial process, with pid 0 and an empty page
\* table, is running and its page table is bound; no process is queued, no
\* frame is mapped and no translation is cached.
Init ==
    /\ mapcounts = [f \in Frames |-> 0]
    /\ procs = <<[pid |-> 0, pagetable |-> [i \in Idx |-> NullSlot]]>>
    /\ current = 1
    /\ ptbr = 1
    /\ processes = <<>>
    /\ tlb = [i \in TlbIdx |-> ZeroTLB]
    /\ call = NoCall
    /\ ncalls = 0

Next ==
    \/ Budget(MaxCalls) /\ \E vpn \in Vpns, rw \in RWModes : alloc_page(vpn, rw)
    \/ Budget(MaxCalls) /\ \E vpn \in Vpns : free_page(vpn)
    \/ Budget(MaxCalls) /\ \E vpn \in Vpns, rw \in RWModes : handle_page_fault(vpn, rw)
    \/ Budget(MaxCalls) /\ \E pid \in Pids : switch_process(pid)

\* The calls that change the page tables and the frame counts.
Spec == Init /\ [][Next]_vars

\* The same calls in longer runs.
NextDeep ==
    \/ Budget(MaxDeepCalls) /\ \E vpn \in Vpns, rw \in RWModes : alloc_page(vpn, rw)
    \/ Budget(MaxDeepCalls) /\ \E vpn \in Vpns : free_page(vpn)
    \/ Budget(MaxDeepCalls) /\ \E vpn \in Vpns, rw \in RWModes : handle_page_fault(vpn, rw)
    \/ Budget(MaxDeepCalls) /\ \E pid \in Pids : switch_process(pid)

SpecDeep == Init /\ [][NextDeep]_vars

\* The same calls with the TLB insertions of the driver.
NextTLB ==
    \/ Budget(MaxTlbCalls) /\ \E vpn \in Vpns, rw \in RWModes : alloc_page(vpn, rw)
    \/ Budget(MaxTlbCalls) /\ \E vpn \in Vpns : free_page(vpn)
    \/ Budget(MaxTlbCalls) /\ \E vpn \in Vpns, rw \in RWModes : handle_page_fault(vpn, rw)
    \/ Budget(MaxTlbCalls) /\ \E pid \in Pids : switch_process(pid)
    \/ Budget(MaxTlbCalls) /\ \E vpn \in Vpns, pfn \in TlbPfns : insert_tlb(vpn, pfn)

SpecTLB == Init /\ [][NextTLB]_vars

\* The active page table maps vpn.
Mapped(vpn) == Running /\ Deref(SlotOf(ptbr, vpn)) /\ PteOf(ptbr, vpn).valid

\* The same calls, with insert_tlb called as the translation does after a
\* walk of the page table: for a mapped vpn, with the pfn of its entry.
NextMmu ==
    \/ Budget(MaxTlbCalls) /\ \E vpn \in Vpns, rw \in RWModes : alloc_page(vpn, rw)
    \/ Budget(MaxTlbCalls) /\ \E vpn \in Vpns : free_page(vpn)
    \/ Budget(MaxTlbCalls) /\ \E vpn \in Vpns, rw \in RWModes : handle_page_fault(vpn, rw)
    \/ Budget(MaxTlbCalls) /\ \E pid \in Pids : switch_process(pid)
    \/ Budget(MaxTlbCalls) /\ \E vpn \in Vpns : Mapped(vpn) /\ insert_tlb(vpn, PteOf(ptbr, vpn).pfn)

SpecMmu == Init /\ [][NextMmu]_vars

\* ---------------------------------------------------------------- claims
\* The entries the code reaches: process p, outer slot i, entry j.
Entries == {e \in (1 .. Len(procs)) \X Idx \X Idx : Deref(procs[e[1]].pagetable[e[2]])}

EntryAt(ps, e) == ps[e[1]].pagetable[e[2]].ptes[e[3]]

\* The valid entries, of the current process and of the queued ones, bound
\* to frame f.
ValidOn(f) == {e \in Entries : EntryAt(procs, e).valid /\ EntryAt(procs, e).pfn = f}

\* The step that is being taken is a call of op.
Calls(op) == ncalls' = ncalls + 1 /\ call'.op = op

\* C1: in every reachable state, for every frame f, mapcounts[f] is the
\* number of valid page-table entries, over the page tables of the current
\* process and of the queued ones, whose pfn is f.
C1_MapcountsCountEntries == \A f \in Frames : mapcounts[f] = Cardinality(ValidOn(f))

\* C2: in every reachable state, a valid writable entry is bound to a frame
\* that no other valid entry is bound to, and whose reference count is 1.
C2_WritableIsExclusive == \A e \in Entries : (EntryAt(procs, e).valid /\ EntryAt(procs, e).writable /\ EntryAt(procs, e).pfn \in Frames) => (ValidOn(EntryAt(procs, e).pfn) = {e} /\ mapcounts[EntryAt(procs, e).pfn] = 1)
\* The entry of page table pt for vpn as the code reads it; no entry behind
\* a NULL slot.
Ent(pt, vpn) == IF Deref(pt[pd_index(vpn)]) THEN pt[pd_index(vpn)].ptes[pte_index(vpn)] ELSE ZeroPTE

AllVpns == 0 .. (NR_PTES_PER_PAGE * NR_PTES_PER_PAGE - 1)

\* The page tables of the processes other than p are the same in ps and qs.
OthersSame(ps, qs, p) == \A q \in 1 .. Len(ps) : q # p => qs[q] = ps[q]

\* C3: a call of alloc_page made while some frame has count 0 returns the
\* smallest frame whose count was 0, raises that count from 0 to 1 and leaves
\* every other count as it was.
C3_AllocSmallestFree == [][(Calls("alloc_page") /\ FreeFrames(mapcounts) # {}) => (call'.ret = Min(FreeFrames(mapcounts)) /\ mapcounts[call'.ret] = 0 /\ mapcounts' = [mapcounts EXCEPT ![call'.ret] = 1])]_vars

\* A hole is refilled: frame 0 was handed out again while frame 1 is in use.
C3_Witness == call.op = "alloc_page" /\ call.ret = 0 /\ call.first = 0 /\ mapcounts[0] = 1 /\ mapcounts[1] = 1 /\ ncalls >= 4

\* The step is a write fault on a valid private entry of the current process
\* whose frame is a frame.
CowFault == Calls("handle_page_fault") /\ call'.arg = RW_WRITE /\ Deref(SlotOf(ptbr, call'.vpn)) /\ PteOf(ptbr, call'.vpn).valid /\ PteOf(ptbr, call'.vpn).private = 1 /\ PteOf(ptbr, call'.vpn).pfn \in Frames

\* C4: a write fault on a valid private entry, not yet writable, whose frame
\* has count 1 returns true, keeps the entry's pfn, makes the entry writable and changes
\* no reference count.
C4_SoleOwnerKeepsFrame == [][(CowFault /\ ~PteOf(ptbr, call'.vpn).writable /\ mapcounts[PteOf(ptbr, call'.vpn).pfn] = 1) => (call'.ret = 1 /\ Ent(procs'[ptbr].pagetable, call'.vpn).pfn = PteOf(ptbr, call'.vpn).pfn /\ Ent(procs'[ptbr].pagetable, call'.vpn).writable /\ mapcounts' = mapcounts)]_vars

\* C5: a write fault on a valid private entry whose frame has count n > 1,
\* made while a frame is free, returns true, rebinds the entry to the lowest
\* free frame, whose count becomes 1, lowers the old frame's count to n - 1,
\* makes the entry writable and leaves the page tables of the other
\* processes as they were.
C5_SharedFaultCopies == [][(CowFault /\ mapcounts[PteOf(ptbr, call'.vpn).pfn] \notin {0, 1} /\ FreeFrames(mapcounts) # {}) => (call'.ret = 1 /\ Ent(procs'[ptbr].pagetable, call'.vpn).pfn = Min(FreeFrames(mapcounts)) /\ mapcounts'[Min(FreeFrames(mapcounts))] = 1 /\ mapcounts'[PteOf(ptbr, call'.vpn).pfn] = mapcounts[PteOf(ptbr, call'.vpn).pfn] - 1 /\ Ent(procs'[ptbr].pagetable, call'.vpn).writable /\ OthersSame(procs, procs', ptbr))]_vars

\* A resolved fault on an entry whose frame another process still maps.
C5_Witness == call.op = "handle_page_fault" /\ call.ret = 1 /\ call.pte.valid /\ call.pte.private = 1 /\ call.cnt = 2 /\ call.first \in Frames /\ Len(procs) = 2 /\ \E q \in 1 .. Len(procs) : q # current /\ Ent(procs[q].pagetable, call.vpn).valid /\ Ent(procs[q].pagetable, call.vpn).pfn = call.pte.pfn /\ Ent(procs[current].pagetable, call.vpn).pfn = call.first /\ call.first # call.pte.pfn

\* C6: after a fork the child has a valid entry for exactly the vpns valid in
\* the parent, bound to the same pfn; an entry that was writable in the
\* parent is private and not writable in both; an entry that was not writable
\* keeps the parent's private flag in the child and is not writable there;
\* and every count has grown by the number of parent entries bound to it.
C6_ForkCopiesCow == [][(Calls("switch_process") /\ call'.forked) => (\A vpn \in AllVpns : LET old == Ent(procs[current].pagetable, vpn) parent == Ent(procs'[current].pagetable, vpn) child == Ent(procs'[current'].pagetable, vpn) IN /\ child.valid = old.valid /\ (old.valid => child.pfn = old.pfn /\ parent.pfn = old.pfn) /\ ((old.valid /\ old.writable) => (~parent.writable /\ parent.private = 1 /\ ~child.writable /\ child.private = 1)) /\ ((old.valid /\ ~old.writable) => (child.private = old.private /\ ~child.writable))) /\ (\A f \in Frames : mapcounts'[f] = mapcounts[f] + Bound(procs[current].pagetable, f))]_vars

\* The step frees a valid entry of the current process.
FreeValid == Calls("free_page") /\ Deref(SlotOf(ptbr, call'.vpn)) /\ PteOf(ptbr, call'.vpn).valid

\* C9: free_page on a valid entry lowers the count of the entry's frame by
\* exactly 1, changes no other count, clears the entry's valid, writable,
\* private and pfn fields, and leaves the entries of the other processes as
\* they were.
C9_FreeDropsOneReference == [][FreeValid => (mapcounts' = DecCount(mapcounts, PteOf(ptbr, call'.vpn).pfn) /\ Ent(procs'[ptbr].pagetable, call'.vpn) = ZeroPTE /\ OthersSame(procs, procs', ptbr))]_vars

\* C10: alloc_page called while no frame has count 0 returns the failure
\* value, leaves the entry for vpn not valid and changes no count.
C10_FailedAllocLeavesNoEntry == [][(Calls("alloc_page") /\ FreeFrames(mapcounts) = {}) => (call'.ret = UINT_MAX /\ ~Ent(procs'[ptbr].pagetable, call'.vpn).valid /\ mapcounts' = mapcounts)]_vars

\* C7: right after a call of switch_process, of either kind, no TLB entry is
\* valid and lookup_tlb finds no vpn.
C7_SwitchFlushesTlb == call.op = "switch_process" => (TlbValid(tlb) = {} /\ \A vpn \in AllVpns : ~lookup_tlb(tlb, vpn).found)

\* A switch made while two translations were cached.
C7_Witness == call.op = "switch_process" /\ call.hits >= 2 /\ TlbValid(tlb) = {}

\* C8: right after free_page on a valid entry, lookup_tlb finds nothing for
\* vpn, and the TLB entries of the other vpns are as they were.
C8_FreeInvalidatesVpn == [][FreeValid => (~lookup_tlb(tlb', call'.vpn).found /\ \A i \in TlbIdx : ~(tlb[i].valid /\ tlb[i].vpn = call'.vpn) => tlb'[i] = tlb[i])]_vars

\* A free of a vpn that was cached twice.
C8_Witness == call.op = "free_page" /\ call.pte.valid /\ call.hits >= 2 /\ ~lookup_tlb(tlb, call.vpn).found

\* C11: a call of handle_page_fault that returns false leaves every
\* reference count and every page-table entry as it was before the call.
C11_FailedFaultChangesNothing == [][(Calls("handle_page_fault") /\ call'.ret = 0) => (mapcounts' = mapcounts /\ procs' = procs)]_vars

\* The number of times process p is linked in the ready queue.
TimesQueued(p) == Cardinality({k \in 1 .. Len(processes) : processes[k] = p})

\* C12: right after a call of switch_process, of either kind, current is one
\* of the processes, it is not in the ready queue, every other process is in
\* the ready queue exactly once, and ptbr is the page table of current.
C12_OneCurrentOthersQueued == call.op = "switch_process" => (current \in 1 .. Len(procs) /\ ptbr = current /\ TimesQueued(current) = 0 /\ \A p \in 1 .. Len(procs) : p # current => TimesQueued(p) = 1)

\* C13: in every reachable state, every valid entry whose private flag is
\* set is not writable.
C13_PrivateIsReadOnly == \A e \in Entries : (EntryAt(procs, e).valid /\ EntryAt(procs, e).private = 1) => ~EntryAt(procs, e).writable

\* C14: in every reachable state the TLB holds at most one valid entry for
\* each vpn.
C14_OneTlbEntryPerVpn == \A vpn \in AllVpns : Cardinality(TlbHits(tlb, vpn)) <= 1

\* C15: in every reachable state, each slot of the active page table either
\* refers to no directory or refers to a directory that exists and holds at
\* least one valid entry.
C15_EmptyDirectoryIsDestroyed == ptbr \in 1 .. Len(procs) => \A i \in Idx : procs[ptbr].pagetable[i].state # "null" => (procs[ptbr].pagetable[i].state = "live" /\ AnyValid(procs[ptbr].pagetable[i].ptes))

\* The step is a call of free_page on an entry of the current process that
\* the code can reach and that is not valid.
FreeInvalid == Calls("free_page") /\ Deref(SlotOf(ptbr, call'.vpn)) /\ ~PteOf(ptbr, call'.vpn).valid

\* C16: free_page on an entry that is not valid changes no reference count
\* and no page-table entry other than the one it was called for.
C16_FreeInvalidIsHarmless == [][FreeInvalid => (mapcounts' = mapcounts /\ \A e \in Entries : e # <<ptbr, pd_index(call'.vpn), pte_index(call'.vpn)>> => EntryAt(procs', e) = EntryAt(procs, e))]_vars

\* The step is a call of switch_process with a pid that a queued process has.
SwitchFound == Calls("switch_process") /\ Found(call'.arg) # HeadProc

\* C17: switch_process with a pid found in the ready queue turns every valid
\* writable entry of the outgoing process into a private, not writable entry
\* with the same pfn and leaves its other entries as they were; it changes no
\* reference count and no page table of another process, creates no
\* process, puts the outgoing process in the ready queue once, takes the
\* target out of it and makes the target current.
C17_SwitchMarksOutgoingOnly == [][SwitchFound => (/\ \A i \in Idx : procs'[current].pagetable[i].state = procs[current].pagetable[i].state /\ (~Deref(procs[current].pagetable[i]) => procs'[current].pagetable[i] = procs[current].pagetable[i]) /\ \A j \in Idx : procs'[current].pagetable[i].ptes[j] = (IF procs[current].pagetable[i].ptes[j].valid /\ procs[current].pagetable[i].ptes[j].writable /\ Deref(procs[current].pagetable[i]) THEN [procs[current].pagetable[i].ptes[j] EXCEPT !.private = 1, !.writable = FALSE] ELSE procs[current].pagetable[i].ptes[j]) /\ procs'[current].pid = procs[current].pid /\ Len(procs') = Len(procs) /\ OthersSame(procs, procs', current) /\ mapcounts' = mapcounts /\ current' = Found(call'.arg) /\ ptbr' = Found(call'.arg) /\ Cardinality({k \in 1 .. Len(processes') : processes'[k] = current}) = 1 /\ \A k \in 1 .. Len(processes') : processes'[k] # Found(call'.arg))]_vars

\* A switch back to the parent from a child that holds a writable entry of
\* its own and a read-only one.
C17_Witness == call.op = "switch_process" /\ ~call.forked /\ call.arg = 0 /\ call.cnt >= 1 /\ current = 1 /\ processes = <<2>> /\ procs[2].pid = 1 /\ (\E vpn \in Vpns : Ent(procs[2].pagetable, vpn).valid /\ Ent(procs[2].pagetable, vpn).private = 1 /\ ~Ent(procs[2].pagetable, vpn).writable) /\ (\E vpn \in Vpns : Ent(procs[2].pagetable, vpn).valid /\ Ent(procs[2].pagetable, vpn).private = 0)

\* The vpn of entry e.
VpnOf(e) == e[2] * NR_PTES_PER_PAGE + e[3]

\* Entry e of page tables ps is populated read-only: valid, not writable and
\* not copy-on-write.
ReadOnly(ps, e) == EntryAt(ps, e).valid /\ ~EntryAt(ps, e).writable /\ EntryAt(ps, e).private = 0

\* The step is a call of alloc_page or free_page by the owner of entry e on
\* the vpn of e.
OwnerRemaps(e) == (Calls("alloc_page") \/ Calls("free_page")) /\ ptbr = e[1] /\ call'.vpn = VpnOf(e)

\* Right after a successful alloc_page(vpn, RW_READ) the entry is not writable.
ReadPopulate == (Calls("alloc_page") /\ call'.arg = RW_READ /\ call'.ret \in Frames) => ~Ent(procs'[ptbr].pagetable, call'.vpn).writable

\* A read-only entry stays read-only over any step but its owner's remaps.
ReadOnlyKept == \A e \in Entries : (ReadOnly(procs, e) /\ ~OwnerRemaps(e)) => ReadOnly(procs', e)

\* A fork copies each read-only entry of the parent as a read-only entry.
ReadOnlyInherited == (Calls("switch_process") /\ call'.forked) => (\A e \in Entries : (e[1] = current /\ ReadOnly(procs, e)) => ReadOnly(procs', <<current', e[2], e[3]>>))

\* A write fault on a read-only entry is not handled.
ReadOnlyFaultFails == (Calls("handle_page_fault") /\ call'.arg = RW_WRITE /\ Deref(SlotOf(ptbr, call'.vpn)) /\ ReadOnly(procs, <<ptbr, pd_index(call'.vpn), pte_index(call'.vpn)>>)) => call'.ret = 0

\* C18: a page populated read-only never becomes writable. Right after a
\* successful alloc_page(vpn, RW_READ) the entry is not writable; an entry
\* that is populated read-only stays so over every step other than an
\* alloc_page or free_page of its owner on its vpn; a fork gives the child a
\* read-only entry for each read-only entry of the parent; and a write fault
\* on a read-only entry returns false.
C18_ReadOnlyStaysReadOnly == [][ReadPopulate /\ ReadOnlyKept /\ ReadOnlyInherited /\ ReadOnlyFaultFails]_vars

\* C19: when insert_tlb is only called with the pfn the active page table
\* maps vpn to, every valid TLB entry (vpn, pfn) matches a valid entry of
\* the active page table that binds vpn to pfn.
C19_TlbMatchesPageTable == ptbr \in 1 .. Len(procs) => \A i \in TlbIdx : tlb[i].valid => (Ent(procs[ptbr].pagetable, tlb[i].vpn).valid /\ Ent(procs[ptbr].pagetable, tlb[i].vpn).pfn = tlb[i].pfn)

\* The processes that are current or linked in the ready queue.
Live == {p \in 1 .. Len(procs) : p = current \/ TimesQueued(p) > 0}

\* C20: in every reachable state no two live processes have the same pid.
C20_PidsAreUnique == \A p \in Live : \A q \in Live : p # q => procs[p].pid # procs[q].pid
====
